---- MODULE Spec2Model ----
(***************************************************************************)
(* A model of libcloud's LXD container driver                              *)
(* (src/libcloud/container/drivers/lxd.py).                                *)
(*                                                                         *)
(* Python strings are TLA+ strings; TLC evaluates Len, \o and SubSeq on    *)
(* them, so every string function below is computed character by          *)
(* character, as the Python built-in it stands for computes it.            *)
(***************************************************************************)
EXTENDS Integers, Sequences, FiniteSets, TLC

VARIABLES
    \* strip_http_prefix(host): the call's position, argument and result
    pcStrip, host_in, host_out,
    \* LXDApiException(response).__str__(): position, self.lxd_response, result
    pcErr, lxd_response, message,
    \* LXDResponse.parse_body(): position, self.body, self.headers,
    \* self.request.url, self.parse_zero_length_body, and the outcome
    pcParse, body, headers, url, parse_zero_length_body, parsed,
    \* "new" before anything is constructed; "connection" once the caller has
    \* constructed an LXDtlsConnection itself; for a driver, "ready" or
    \* "failed" after __init__ and "listing" inside the loop of list_containers
    pc,
    \* the driver object's fields (connectionCls, secure, host, ...)
    driver,
    \* the last call of LXDtlsConnection.__init__: its arguments and outcome
    validated,
    \* the method running or last run (__init__ included), and its arguments
    op, op_args,
    \* the stub transport: the requests the current call has sent, and the
    \* responses given to them
    requests, responses,
    \* list_containers: meta and containers
    meta, containers,
    \* what the last call returned or raised
    result

stripVars  == <<pcStrip, host_in, host_out>>
errVars    == <<pcErr, lxd_response, message>>
parseVars  == <<pcParse, body, headers, url, parse_zero_length_body, parsed>>
driverVars == <<pc, driver, validated, op, op_args, requests, responses,
                meta, containers, result>>

vars == <<stripVars, errVars, parseVars, driverVars>>

----------------------------------------------------------------------------
(* Python string built-ins *)

\* s[i], 1-based
CharAt(s, i) == SubSeq(s, i, i)

\* c in chars, for a one-character string c
InChars(c, chars) == \E i \in 1..Len(chars) : CharAt(chars, i) = c

\* str.startswith
StartsWith(s, prefix) ==
    /\ Len(s) >= Len(prefix)
    /\ SubSeq(s, 1, Len(prefix)) = prefix

\* frag in s
Occurs(s, frag) ==
    \E i \in 1..(Len(s) - Len(frag) + 1) : SubSeq(s, i, i + Len(frag) - 1) = frag

\* str.lstrip(chars): drop leading characters that are in the set chars
RECURSIVE LStrip(_, _)
LStrip(s, chars) ==
    IF Len(s) > 0 /\ InChars(CharAt(s, 1), chars)
    THEN LStrip(SubSeq(s, 2, Len(s)), chars)
    ELSE s

\* str.rstrip(chars)
RECURSIVE RStrip(_, _)
RStrip(s, chars) ==
    IF Len(s) > 0 /\ InChars(CharAt(s, Len(s)), chars)
    THEN RStrip(SubSeq(s, 1, Len(s) - 1), chars)
    ELSE s

\* str.strip(chars): the argument is a SET of characters, removed from both
\* ends for as long as the end character is in the set
PyStrip(s, chars) == RStrip(LStrip(s, chars), chars)

\* what removing a leading prefix once would be: s[len(prefix):]
RemovePrefix(s, prefix) == SubSeq(s, Len(prefix) + 1, Len(s))

----------------------------------------------------------------------------
(* strip_http_prefix *)

prefixes == <<"http://", "https://">>

\* the loop body: if host.startswith(prefix): host = host.strip(prefix)
StripOne(host, prefix) ==
    IF StartsWith(host, prefix) THEN PyStrip(host, prefix) ELSE host

RECURSIVE StripLoop(_, _)
StripLoop(host, i) ==
    IF i > Len(prefixes) THEN host
    ELSE StripLoop(StripOne(host, prefixes[i]), i + 1)

strip_http_prefix(host) == StripLoop(host, 1)

\* the host strings tried: an optional scheme, then up to MaxHostPieces pieces
MaxHostPieces == 2

HostPieces == {"lxd", "host", "s", ".", "/", "http://", "h", "10"}

RECURSIVE Joined(_)
Joined(n) ==
    IF n = 0 THEN {""}
    ELSE LET shorter == Joined(n - 1)
         IN  shorter \cup {a \o p : a \in shorter, p \in HostPieces}

Hosts == {s \o r : s \in {"", "http://", "https://"}, r \in Joined(MaxHostPieces)}

\* Python's None and a value that may be None: <<>> and <<v>>
None == <<>>
Some(v) == <<v>>

NoException == [type |-> "", msg |-> "", payload |-> <<>>]
Raise(type, msg) == [type |-> type, msg |-> msg, payload |-> <<>>]

\* what a call returned or raised
NoResult == [kind |-> "none", value |-> <<>>, exc |-> NoException]
Returns(kind, value) == [kind |-> kind, value |-> value, exc |-> NoException]
Raises(exc) == [kind |-> "raise", value |-> <<>>, exc |-> exc]
NotValidated == [called |-> FALSE]

IdleDriver ==
    /\ pc = "idle"
    /\ driver = <<>>
    /\ validated = NotValidated
    /\ op = ""
    /\ op_args = <<>>
    /\ requests = <<>>
    /\ responses = <<>>
    /\ meta = <<>>
    /\ containers = <<>>
    /\ result = NoResult

IdleStrip == pcStrip = "idle" /\ host_in = "" /\ host_out = ""
IdleErr   == pcErr = "idle" /\ lxd_response = <<>> /\ message = ""
IdleParse ==
    /\ pcParse = "idle"
    /\ body = ""
    /\ headers = <<>>
    /\ url = ""
    /\ parse_zero_length_body = FALSE
    /\ parsed = [kind |-> "none", raw |-> "", values |-> <<>>, msg |-> ""]

InitStrip ==
    /\ pcStrip = "call"
    /\ host_in \in Hosts
    /\ host_out = ""
    /\ IdleErr /\ IdleParse /\ IdleDriver

StripCall ==
    /\ pcStrip = "call"
    /\ host_out' = strip_http_prefix(host_in)
    /\ pcStrip' = "ret"
    /\ UNCHANGED <<host_in, errVars, parseVars, driverVars>>

NextStrip == StripCall

SpecStrip == InitStrip /\ [][NextStrip]_vars

\* C1: for every host that starts with 'http://' or 'https://',
\* strip_http_prefix returns the host with exactly that leading prefix removed
\* once and the remainder untouched, also when the remainder contains 'http://'.
C1_PrefixRemovedOnce ==
    pcStrip = "ret" =>
        \A i \in 1..Len(prefixes) :
            StartsWith(host_in, prefixes[i]) =>
                host_out = RemovePrefix(host_in, prefixes[i])

----------------------------------------------------------------------------
(* LXDApiException.__str__ *)

\* a Python dict: a function whose domain is the set of keys present
PartialMaps(K, V) == UNION {[D -> V] : D \in SUBSET K}

Has(d, k) == k \in DOMAIN d

\* '<key>: {0} '.format(value), for a string value
Fragment(key, value) == key \o ": " \o value \o " "

\* response += fragment
Append_(response, d, key) ==
    IF Has(d, key) THEN response \o Fragment(key, d[key]) ELSE response

\* response = fragment
Reset_(response, d, key) ==
    IF Has(d, key) THEN Fragment(key, d[key]) ELSE response

LXDApiException_str_AllAppend(d) ==
    LET r0 == " "
        r1 == Append_(r0, d, "type")
        r2 == Append_(r1, d, "status")
        r3 == Append_(r2, d, "status_code")
        r4 == Append_(r3, d, "operation")
        r5 == Append_(r4, d, "error_code")
        r6 == Append_(r5, d, "error")
    IN  IF r6 = "" THEN "Empty LXDResponse" ELSE r6

LXDApiException_str(d) ==
    LET r0 == " "
        r1 == Append_(r0, d, "type")
        r2 == Append_(r1, d, "status")
        r3 == Reset_(r2, d, "status_code")
        r4 == Reset_(r3, d, "operation")
        r5 == Reset_(r4, d, "error_code")
        r6 == Reset_(r5, d, "error")
    IN  IF r6 = "" THEN "Empty LXDResponse" ELSE r6

\* the keys __str__ assigns the message from, in the order it looks at
\* them, and all the keys it looks at
ResettingKeys == <<"status_code", "operation", "error_code", "error">>
SixKeys == {"type", "status", "status_code", "operation", "error_code", "error"}

\* the payloads tried: any subset of the six keys and of one key __str__ does
\* not look at, each with one of two values
ErrKeys   == SixKeys \cup {"metadata"}
ErrValues == {"boom", "400"}

InitErr ==
    /\ pcErr = "call"
    /\ lxd_response \in PartialMaps(ErrKeys, ErrValues)
    /\ message = ""
    /\ IdleStrip /\ IdleParse /\ IdleDriver

StrCall ==
    /\ pcErr = "call"
    /\ message' = LXDApiException_str(lxd_response)
    /\ pcErr' = "ret"
    /\ UNCHANGED <<lxd_response, stripVars, parseVars, driverVars>>

NextErr == StrCall

SpecErr == InitErr /\ [][NextErr]_vars

\* C2: when the payload has none of the six keys (the empty map included),
\* the rendered message is exactly 'Empty LXDResponse'.
C2_EmptyResponseMessage ==
    (pcErr = "ret" /\ DOMAIN lxd_response \cap SixKeys = {}) =>
        message = "Empty LXDResponse"

FragmentOrEmpty(d, key) == IF Has(d, key) THEN Fragment(key, d[key]) ELSE ""

\* C9: with at least one of the six keys present: if any of status_code,
\* operation, error_code, error is present, the message is only the fragment
\* of the last present one in that order; otherwise it contains the type
\* fragment followed by the status fragment, for those of the two present.
C9_MessagePrecedence ==
    (pcErr = "ret" /\ DOMAIN lxd_response \cap SixKeys # {}) =>
        LET present == {i \in 1..Len(ResettingKeys) :
                            Has(lxd_response, ResettingKeys[i])}
        IN  IF present # {}
            THEN LET last == CHOOSE i \in present : \A j \in present : j <= i
                 IN  message = Fragment(ResettingKeys[last],
                                        lxd_response[ResettingKeys[last]])
            ELSE Occurs(message, FragmentOrEmpty(lxd_response, "type")
                                 \o FragmentOrEmpty(lxd_response, "status"))

\* {"error": "boom"} was rendered
C9_Witness ==
    /\ pcErr = "ret"
    /\ lxd_response = [k \in {"error"} |-> "boom"]
    /\ message = "error: boom "

----------------------------------------------------------------------------
(* LXDResponse.parse_body *)

\* the characters str.strip() removes and json.loads skips around a value
Whitespace == " \t\n\r"

\* str.replace(c, ''), for a one-character string c
RECURSIVE RemoveChar(_, _)
RemoveChar(s, c) ==
    IF Len(s) = 0 THEN s
    ELSE IF CharAt(s, 1) = c
         THEN RemoveChar(SubSeq(s, 2, Len(s)), c)
         ELSE CharAt(s, 1) \o RemoveChar(SubSeq(s, 2, Len(s)), c)

\* str.split(sep), for a one-character string sep: every field, the empty
\* ones included
RECURSIVE Split(_, _)
Split(s, sep) ==
    IF \A i \in 1..Len(s) : CharAt(s, i) # sep
    THEN <<s>>
    ELSE LET i == CHOOSE k \in 1..Len(s) :
                      /\ CharAt(s, k) = sep
                      /\ \A j \in 1..(k - 1) : CharAt(s, j) # sep
         IN  <<SubSeq(s, 1, i - 1)>> \o Split(SubSeq(s, i + 1, Len(s)), sep)

\* json.loads on the JSON texts the model uses: an integer written with the
\* digits 1 and 2, with optional whitespace around it. Anything else (the
\* empty text, text with a character that is no digit, two values) is a
\* ValueError.
JsonDigits == "12"

DigitValue(c) == IF c = "1" THEN 1 ELSE 2

RECURSIVE DigitsValue(_)
DigitsValue(t) ==
    IF Len(t) = 0 THEN 0
    ELSE 10 * DigitsValue(SubSeq(t, 1, Len(t) - 1)) + DigitValue(CharAt(t, Len(t)))

JsonLoads(text) ==
    LET t == PyStrip(text, Whitespace)
        ok == Len(t) > 0 /\ \A i \in 1..Len(t) : InChars(CharAt(t, i), JsonDigits)
    IN  [ok |-> ok, value |-> IF ok THEN DigitsValue(t) ELSE 0]

\* dict.get(key, default)
DictGet(d, key, default) == IF Has(d, key) THEN d[key] ELSE default

\* the outcomes of parse_body
ReturnBody(raw)    == [kind |-> "body",  raw |-> raw, values |-> <<>>, msg |-> ""]
ReturnJson(value)  == [kind |-> "json",  raw |-> "",  values |-> <<value>>, msg |-> ""]
ReturnList(values) == [kind |-> "list",  raw |-> "",  values |-> values, msg |-> ""]
RaiseException(m)  == [kind |-> "raise", raw |-> "",  values |-> <<>>, msg |-> m]

\* re.search('Error: (.+?)"', body): the leftmost 'Error: ' that is followed
\* by at least one character other than a newline and then a double quote;
\* the group is the shortest such run
ErrorMatches(s) ==
    {<<i, j>> \in (1..Len(s)) \X (1..Len(s)) :
        /\ i + 7 < j
        /\ SubSeq(s, i, i + 6) = "Error: "
        /\ CharAt(s, j) = "\""
        /\ \A k \in (i + 7)..(j - 1) : CharAt(s, k) # "\n"}

\* the except ValueError branch
ParseFailure(s) ==
    LET ms == ErrorMatches(s)
    IN  IF ms # {}
        THEN LET i == CHOOSE a \in {m[1] : m \in ms} :
                          \A b \in {m[1] : m \in ms} : a <= b
                 j == CHOOSE a \in {m[2] : m \in {n \in ms : n[1] = i}} :
                          \A b \in {m[2] : m \in {n \in ms : n[1] = i}} : a <= b
             IN  RaiseException(SubSeq(s, i + 7, j - 1))
        ELSE RaiseException("ConnectionError: Failed to parse JSON response")

\* self.body.strip().replace('\r', '').split('\n')
ChunkLines_SkipBlank(s) ==
    SelectSeq(Split(RemoveChar(PyStrip(s, Whitespace), "\r"), "\n"),
              LAMBDA line : line # "")

ChunkLines(s) == Split(RemoveChar(PyStrip(s, Whitespace), "\r"), "\n")

\* [json.loads(chunk) for chunk in ...]: the list, or the first ValueError
LoadChunks(s) ==
    LET chunks == ChunkLines(s)
        loaded == [i \in 1..Len(chunks) |-> JsonLoads(chunks[i])]
    IN  IF \A i \in 1..Len(chunks) : loaded[i].ok
        THEN ReturnList([i \in 1..Len(chunks) |-> loaded[i].value])
        ELSE ParseFailure(s)

JsonContentType(h) ==
    LET content_type == DictGet(h, "content-type", "application/json")
    IN  content_type = "application/json" \/ content_type = ""

Chunked(h) == Has(h, "transfer-encoding") /\ h["transfer-encoding"] = "chunked"

parse_body(b, h, u, zero) ==
    IF Len(b) = 0 /\ ~zero
    THEN ReturnBody(b)
    ELSE IF JsonContentType(h)
         THEN IF Chunked(h) /\ Occurs(u, "fromImage")
              THEN LoadChunks(b)
              ELSE IF JsonLoads(b).ok
                   THEN ReturnJson(JsonLoads(b).value)
                   ELSE ParseFailure(b)
         ELSE ReturnBody(b)

\* the bodies tried: up to MaxBodyPieces pieces
MaxBodyPieces == 3

BodyPieces == {"1", "2", "\n", "\r", "\n\n", " ", "Error: 1\""}

RECURSIVE JoinedBody(_)
JoinedBody(n) ==
    IF n = 0 THEN {""}
    ELSE LET shorter == JoinedBody(n - 1)
         IN  shorter \cup {a \o p : a \in shorter, p \in BodyPieces}

Bodies == JoinedBody(MaxBodyPieces)

HeaderMaps ==
    {h \in PartialMaps({"content-type", "transfer-encoding"},
                       {"application/json", "", "text/plain", "chunked", "identity"}) :
        /\ Has(h, "content-type") =>
               h["content-type"] \in {"application/json", "", "text/plain"}
        /\ Has(h, "transfer-encoding") =>
               h["transfer-encoding"] \in {"chunked", "identity"}}

Urls == {"/1.0/images", "/1.0/images/create?fromImage=ubuntu"}

InitParse ==
    /\ pcParse = "call"
    /\ body \in Bodies
    /\ headers \in HeaderMaps
    /\ url \in Urls
    /\ parse_zero_length_body \in BOOLEAN
    /\ parsed = [kind |-> "none", raw |-> "", values |-> <<>>, msg |-> ""]
    /\ IdleStrip /\ IdleErr /\ IdleDriver

ParseBodyCall ==
    /\ pcParse = "call"
    /\ parsed' = parse_body(body, headers, url, parse_zero_length_body)
    /\ pcParse' = "ret"
    /\ UNCHANGED <<body, headers, url, parse_zero_length_body, stripVars, errVars,
                   driverVars>>

NextParse == ParseBodyCall

SpecParse == InitParse /\ [][NextParse]_vars

\* the case C10 is about: a JSON (or empty, or absent) content type, chunked
\* transfer encoding, 'fromImage' in the URL, a non-empty body
ChunkedCase ==
    /\ pcParse = "ret"
    /\ ~Has(headers, "content-type")
           \/ headers["content-type"] \in {"application/json", ""}
    /\ Has(headers, "transfer-encoding") /\ headers["transfer-encoding"] = "chunked"
    /\ Occurs(url, "fromImage")
    /\ Len(body) > 0

\* the lines of the body, after stripping and removing carriage returns
BodyLines == Split(RemoveChar(PyStrip(body, Whitespace), "\r"), "\n")

NonEmpty(line) == line # ""

\* C10 as claimed: the non-empty lines (there is at least one) are parsed each
\* as a JSON value and returned in line order; blank lines between values are
\* skipped and cause no parse failure.
C10_BlankLinesSkipped ==
    ChunkedCase =>
        LET lines == SelectSeq(BodyLines, NonEmpty)
        IN  (Len(lines) > 0 /\ \A k \in 1..Len(lines) : JsonLoads(lines[k]).ok) =>
                /\ parsed.kind = "list"
                /\ parsed.values = [k \in 1..Len(lines) |-> JsonLoads(lines[k]).value]

\* C10 (amended): every line, blank ones included, is parsed as a JSON value;
\* the values are returned in line order, one per line, when every line
\* parses, and otherwise (so whenever a blank line lies between values) the
\* call raises.
C10_EveryLineParsed ==
    ChunkedCase =>
        /\ parsed.kind \in {"list", "raise"}
        /\ parsed.kind = "list" <=>
               \A k \in 1..Len(BodyLines) : JsonLoads(BodyLines[k]).ok
        /\ parsed.kind = "list" =>
               /\ Len(parsed.values) = Len(BodyLines)
               /\ \A k \in 1..Len(BodyLines) :
                      parsed.values[k] = JsonLoads(BodyLines[k]).value
        /\ (\E k \in 1..Len(BodyLines) : BodyLines[k] = "") => parsed.kind = "raise"

\* two values on two lines came back in line order, and a body with a blank
\* line between two values raised
C10_Witness ==
    /\ ChunkedCase
    /\ \/ body = "1\n2" /\ parsed.kind = "list" /\ parsed.values = <<1, 2>>
       \/ body = "1\n\n2" /\ parsed.kind = "raise"

----------------------------------------------------------------------------
(* check_certificates and LXDtlsConnection.__init__ *)

\* the file system: the regular files and the directories that exist
RegularFiles == {"client.key", "/home/user/client.crt"}
Directories  == {"certs", "/home/user"}

\* os.path.expanduser
expanduser(path) ==
    IF path = "~" \/ StartsWith(path, "~/")
    THEN "/home/user" \o SubSeq(path, 2, Len(path))
    ELSE path

\* os.path.exists(p) and os.path.isfile(p)
is_file_path_ExistsOnly(path) == path \in RegularFiles \cup Directories

is_file_path(path) ==
    /\ path \in RegularFiles \cup Directories
    /\ path \in RegularFiles

\* x.split('.')[-1]
Last(seq) == seq[Len(seq)]
Suffix(path) == Last(Split(path, "."))

\* str(list) of a list of strings: "['key', 'pem']"
RECURSIVE ListItems(_)
ListItems(list) ==
    IF Len(list) = 0 THEN ""
    ELSE IF Len(list) = 1 THEN "'" \o list[1] \o "'"
    ELSE "'" \o list[1] \o "', " \o ListItems(Tail(list))

ListStr(list) == "[" \o ListItems(list) \o "]"

InList(x, list) == \E i \in 1..Len(list) : list[i] = x

MissingFilesMsg ==
    "TLS Connection requires specification of a key file and a certificate file"

\* key_file and cert_file are None or Some(path); kwargs is a dict that may
\* hold key_files_allowed and cert_files_allowed; the result is the exception
\* raised (NoException when the function returns)
check_certificates(key_file, cert_file, kwargs) ==
    IF key_file = None \/ cert_file = None
    THEN Raise("InvalidCredsError", MissingFilesMsg)
    ELSE IF key_file[1] = "" \/ cert_file[1] = ""
    THEN Raise("InvalidCredsError", MissingFilesMsg)
    ELSE IF /\ Has(kwargs, "key_files_allowed")
            /\ ~InList(Suffix(key_file[1]), kwargs["key_files_allowed"])
    THEN Raise("InvalidCredsError",
               "Valid key files are: " \o ListStr(kwargs["key_files_allowed"])
                   \o "you provided: " \o Suffix(key_file[1]))
    ELSE IF /\ Has(kwargs, "cert_files_allowed")
            /\ ~InList(Suffix(cert_file[1]), kwargs["cert_files_allowed"])
    THEN Raise("InvalidCredsError",
               "Valid certification files are: "
                   \o ListStr(kwargs["cert_files_allowed"])
                   \o "you provided: " \o Suffix(cert_file[1]))
    ELSE IF ~is_file_path(expanduser(key_file[1]))
    THEN Raise("InvalidCredsError",
               "You need a key file to authenticate with LXD tls. This can be found in the server.")
    ELSE IF ~is_file_path(expanduser(cert_file[1]))
    THEN Raise("InvalidCredsError",
               "You need a certificate file to authenticate with LXD tls. This can be found in the server.")
    ELSE NoException

\* a caller-supplied certificate_validator: a callable the model knows only
\* by whether it raises
CustomValidators == {"accepts", "rejects"}

custom_validator(name) ==
    IF name = "rejects"
    THEN Raise("InvalidCredsError", "rejected by certificate_validator")
    ELSE NoException

\* LXDtlsConnection.__init__ up to the call of the base constructor: the
\* exception raised, if any. validator is None or Some(a custom validator).
LXDtlsConnection_init(key_file, cert_file, validator, kwargs) ==
    IF validator # None
    THEN custom_validator(validator[1])
    ELSE check_certificates(key_file, cert_file, kwargs)

\* the record kept of a call of LXDtlsConnection.__init__
Validation(key_file, cert_file, validator, kwargs) ==
    [called    |-> TRUE,
     key_file  |-> key_file,
     cert_file |-> cert_file,
     validator |-> validator,
     kwargs    |-> kwargs,
     exc       |-> LXDtlsConnection_init(key_file, cert_file, validator, kwargs)]

\* the arguments tried
FilePaths ==
    {None, Some(""), Some("missing.pem"), Some("certs"), Some("client.key"),
     Some("~/client.crt")}

AllowedLists == {<<"key">>, <<"key", "pem">>, <<"crt">>}

ValidatorKwargs ==
    {kw \in PartialMaps({"key_files_allowed", "cert_files_allowed"}, AllowedLists) :
        /\ Has(kw, "key_files_allowed") =>
               kw["key_files_allowed"] \in {<<"key">>, <<"key", "pem">>}
        /\ Has(kw, "cert_files_allowed") => kw["cert_files_allowed"] = <<"crt">>}

----------------------------------------------------------------------------
(* LXDContainerDriver.__init__ *)

\* bool(x) for x None or a string
Truthy(x) == x # None /\ x[1] # ""

NeedsBothMsg ==
    "Needs both private key file and certificate file for tls authentication"

\* _ex_connection_class_kwargs reads self.key_file and self.cert_file, which
\* __init__ assigns only when key_file is truthy. When it did not, the read
\* finds what the base class provides: nothing (AttributeError) or a
\* class-level default. base_has_files says which.
ex_connection_class_kwargs(assigned, key_file, cert_file, base_has_files) ==
    IF assigned
    THEN [exc |-> NoException, key_file |-> key_file, cert_file |-> cert_file]
    ELSE IF base_has_files
    THEN [exc |-> NoException, key_file |-> None, cert_file |-> None]
    ELSE [exc |-> Raise("AttributeError", "key_file"),
          key_file |-> None, cert_file |-> None]

\* LXDContainerDriver.version, which _get_api_version returns
ClassVersion == "1.0"

get_api_version == ClassVersion

\* ContainerDriver.__init__: builds self.connection from connectionCls and
\* _ex_connection_class_kwargs(); sends nothing. The outcome is the exception
\* raised and the record of LXDtlsConnection.__init__, when that ran.
BaseDriver_init(connectionCls, assigned, key_file, cert_file, base_has_files) ==
    LET kw == ex_connection_class_kwargs(assigned, key_file, cert_file,
                                         base_has_files)
    IN  IF kw.exc # NoException
        THEN [exc |-> kw.exc, validated |-> NotValidated]
        ELSE IF connectionCls = "LXDtlsConnection"
        THEN LET v == Validation(kw.key_file, kw.cert_file, None, <<>>)
             IN  [exc |-> v.exc, validated |-> v]
        ELSE [exc |-> NoException, validated |-> NotValidated]

\* the check after the base constructor
NeedsBoth(key_file, cert_file) ==
    /\ Truthy(key_file) \/ Truthy(cert_file)
    /\ ~(Truthy(key_file) /\ Truthy(cert_file))

\* __init__(key_file, cert_file, host, secure, ca_cert): the exception raised,
\* the fields of the driver when none is, and the validation record
LXDContainerDriver_init(key_file, cert_file, host, secure, ca_cert, base_has) ==
    LET tls == Truthy(key_file)
        connectionCls == IF tls THEN "LXDtlsConnection" ELSE "LXDConnection"
        secure1 == IF tls THEN TRUE ELSE secure
        secure2 == IF StartsWith(host, "https://") THEN TRUE ELSE secure1
        host1 == strip_http_prefix(host)
        base == BaseDriver_init(connectionCls, tls, key_file, cert_file, base_has)
        exc == IF base.exc # NoException THEN base.exc
               ELSE IF NeedsBoth(key_file, cert_file)
               THEN Raise("Exception", NeedsBothMsg)
               ELSE NoException
    IN  [exc |-> exc,
         validated |-> base.validated,
         driver |-> IF exc # NoException THEN <<>>
                    ELSE [connectionCls |-> connectionCls,
                          key_file  |-> IF tls THEN key_file ELSE None,
                          cert_file |-> IF tls THEN cert_file ELSE None,
                          secure  |-> secure2,
                          host    |-> host1,
                          ca_cert |-> IF Truthy(ca_cert) THEN ca_cert
                                      ELSE Some("False"),
                          version |-> get_api_version]]

DriverHosts == {"localhost", "https://lxd", "http://10.0.0.1"}
CaCerts == {None, Some("ca.pem")}

InitNew ==
    /\ pc = "new"
    /\ driver = <<>>
    /\ validated = NotValidated
    /\ op = ""
    /\ op_args = <<>>
    /\ requests = <<>>
    /\ responses = <<>>
    /\ meta = <<>>
    /\ containers = <<>>
    /\ result = NoResult
    /\ IdleStrip /\ IdleErr /\ IdleParse

\* LXDtlsConnection(key_file=..., cert_file=..., **kwargs), constructed by the
\* caller itself, without a driver
TlsConnect ==
    /\ pc = "new"
    /\ \E kf \in FilePaths, cf \in FilePaths, kw \in ValidatorKwargs,
          cv \in {None} \cup {Some(v) : v \in CustomValidators} :
          validated' = Validation(kf, cf, cv, kw)
    /\ pc' = "connection"
    /\ UNCHANGED <<driver, op, op_args, requests, responses, meta,
                   containers, result>>
    /\ UNCHANGED <<stripVars, errVars, parseVars>>

\* LXDContainerDriver(key_file=..., cert_file=..., host=..., ...)
Construct ==
    /\ pc = "new"
    /\ \E kf \in FilePaths, cf \in FilePaths, h \in DriverHosts,
          sec \in BOOLEAN, ca \in CaCerts, base_has_files \in BOOLEAN :
          LET out == LXDContainerDriver_init(kf, cf, h, sec, ca, base_has_files)
          IN  /\ op_args' = [key_file |-> kf, cert_file |-> cf, host |-> h,
                             secure |-> sec, ca_cert |-> ca]
              /\ driver' = out.driver
              /\ validated' = out.validated
              /\ pc' = IF out.exc = NoException THEN "ready" ELSE "failed"
              /\ result' = IF out.exc = NoException
                           THEN Returns("driver", <<>>)
                           ELSE Raises(out.exc)
    /\ op' = "__init__"
    /\ UNCHANGED <<requests, responses, meta, containers>>
    /\ UNCHANGED <<stripVars, errVars, parseVars>>

NextInit ==
    \/ TlsConnect
    \/ Construct

SpecInit == InitNew /\ [][NextInit]_vars

\* a path that is None, empty, or names no existing regular file
BadPath(path) ==
    \/ path = None
    \/ path[1] = ""
    \/ expanduser(path[1]) \notin RegularFiles

BadPair(key_file, cert_file) == BadPath(key_file) \/ BadPath(cert_file)

\* C6: for every key_file/cert_file pair in which either path is None, the
\* empty string, or names no existing regular file, check_certificates raises
\* InvalidCredsError; and constructing the driver with such a pair sends no
\* request (with a key_file given, it fails with InvalidCredsError).
C6_BadPairRejected ==
    /\ (validated.called /\ validated.validator = None
            /\ BadPair(validated.key_file, validated.cert_file)) =>
           validated.exc.type = "InvalidCredsError"
    /\ (op = "__init__" /\ BadPair(op_args.key_file, op_args.cert_file)) =>
           /\ requests = <<>>
           /\ responses = <<>>
           /\ Truthy(op_args.key_file) =>
                  (pc = "failed" /\ result.exc.type = "InvalidCredsError")

\* the driver was constructed with a key file that exists and a certificate
\* path that names a directory, and the default validation ran and raised
C6_Witness ==
    /\ op = "__init__"
    /\ op_args.key_file = Some("client.key")
    /\ op_args.cert_file = Some("certs")
    /\ validated.called
    /\ validated.exc.type = "InvalidCredsError"
    /\ pc = "failed"

\* C7 as claimed: constructing the driver with exactly one of key_file and
\* cert_file supplied fails with the error 'Needs both private key file and
\* certificate file for tls authentication'; with both or neither supplied
\* that error is not raised.
C7_ExactlyOneNeedsBoth ==
    (pc \in {"ready", "failed"} /\ op = "__init__") =>
        LET one == Truthy(op_args.key_file) # Truthy(op_args.cert_file)
        IN  /\ one => (pc = "failed" /\ result.exc = Raise("Exception", NeedsBothMsg))
            /\ ~one => result.exc.msg # NeedsBothMsg

----------------------------------------------------------------------------
(* the connection, as the stub transport sees it *)

\* LXDResponse.valid_response_codes: OK, ACCEPTED, CREATED, NO_CONTENT
valid_response_codes == <<200, 202, 201, 204>>

success(status) == \E i \in 1..Len(valid_response_codes) :
                       valid_response_codes[i] = status

\* LXDResponse.parse_error: raises on 401, else returns the body
parse_error(status) ==
    IF status = 401 THEN Raise("InvalidCredsError", "Invalid credentials")
    ELSE NoException

\* connection.request(...): the exception it raises for the response given.
\* The base connection calls parse_error for a status that is no success.
RequestRaises(resp) ==
    IF success(resp.status) THEN NoException ELSE parse_error(resp.status)

Request(method, path, json) == [method |-> method, path |-> path, json |-> json]

\* the remote API: container names, the status strings it reports, and the
\* payloads (parsed JSON objects) of its responses
ContainerNames == {"a", "b"}
RemoteStatuses == {"Running", "Frozen"}

Metadata(name, status) ==
    [name |-> name, status |-> status, architecture |-> "x86_64",
     config |-> <<>>, created_at |-> "t"]

FailurePayload == [type |-> "error", status |-> "Failure", error |-> "not found"]
NoStatusPayload == [type |-> "error", error |-> "not found"]

DetailResponses ==
    {[status |-> 200,
      payload |-> [type |-> "sync", status |-> "Success",
                   metadata |-> Metadata(n, st)]] :
        n \in ContainerNames, st \in RemoteStatuses}
    \cup {[status |-> 200, payload |-> FailurePayload],
          [status |-> 404, payload |-> NoStatusPayload],
          [status |-> 401, payload |-> <<>>]}

\* listings of at most MaxList paths
MaxList == 2

ListPaths == {"/1.0/containers/a", "/1.0/containers/b"}

Listings == UNION {[1..n -> ListPaths] : n \in 0..MaxList}

ListResponses ==
    {[status |-> 200,
      payload |-> [type |-> "sync", status |-> "Success", metadata |-> l]] :
        l \in Listings}
    \cup {[status |-> 200, payload |-> FailurePayload],
          [status |-> 404, payload |-> NoStatusPayload],
          [status |-> 401, payload |-> <<>>]}

OtherResponses ==
    {[status |-> 202, payload |-> [type |-> "async", status |-> "Operation created"]],
     [status |-> 401, payload |-> <<>>]}

----------------------------------------------------------------------------
(* the driver's operations *)

LXD_API_SUCCESS_STATUS == <<"Success">>
LXD_API_STATE_ACTIONS  == <<"stop", "start", "restart", "freeze", "unfreeze">>

\* the state _to_container gives a remote status string
ContainerState_StoppedOnly(status) ==
    IF status = "Stopped" THEN "STOPPED" ELSE "RUNNING"

ContainerState(status) ==
    IF status = "Running" THEN "RUNNING" ELSE "STOPPED"

to_container(data) ==
    [name  |-> data.name,
     id    |-> data.name,
     state |-> ContainerState(data.status),
     image |-> [id |-> "?", name |-> "?", path |-> "/", version |-> "/"],
     ip_addresses |-> <<>>,
     extra |-> <<>>]

\* get_container, from the response to its request on: what it returns or
\* raises
get_container_result(resp) ==
    IF RequestRaises(resp) # NoException
    THEN Raises(RequestRaises(resp))
    ELSE LET r == resp.payload
         IN  IF ~Has(r, "status")
             THEN Raises(Raise("KeyError", "status"))
             ELSE IF ~InList(r.status, LXD_API_SUCCESS_STATUS)
             THEN Raises([type |-> "LXDApiException",
                          msg |-> LXDApiException_str(r),
                          payload |-> <<r>>])
             ELSE Returns("container", to_container(r.metadata))

ContainerPath(version, id) == "/" \o version \o "/containers/" \o id

\* get_container(id)
GetContainer ==
    /\ pc = "ready"
    /\ \E id \in ContainerNames, resp \in DetailResponses :
          /\ op' = "get_container"
          /\ op_args' = [id |-> id]
          /\ requests' = <<Request("GET", ContainerPath(driver.version, id), None)>>
          /\ responses' = <<resp>>
          /\ result' = get_container_result(resp)
    /\ UNCHANGED <<pc, driver, validated, meta, containers>>
    /\ UNCHANGED <<stripVars, errVars, parseVars>>

\* action in LXD_API_STATE_ACTIONS
ValidAction_Any(action) == TRUE

ValidAction(action) == InList(action, LXD_API_STATE_ACTIONS)

\* the force sent, for the force passed
ForceSent_AsPassed(action, force) == force

ForceSent_FixedByAction(action, force) == ~(action = "start" \/ action = "restart")

ForceSent(action, force) ==
    IF action = "start" \/ action = "restart" THEN FALSE ELSE force

\* _do_container_action(container, action, timeout, force, stateful), called
\* by the method named caller, up to its PUT request
do_container_action(caller, name, action, timeout, force, stateful) ==
    /\ pc = "ready"
    /\ op' = caller
    /\ op_args' = [container |-> name, action |-> action, timeout |-> timeout,
                   force |-> force, stateful |-> stateful]
    /\ IF ~ValidAction(action)
       THEN /\ result' = Raises(Raise("ValueError", "Invalid action specified"))
            /\ requests' = <<>>
            /\ responses' = <<>>
            /\ UNCHANGED pc
       ELSE \E resp \in OtherResponses :
               LET json == [action |-> action, timeout |-> timeout,
                            stateful |-> stateful,
                            force |-> ForceSent(action, force)]
               IN  /\ requests' = <<Request("PUT",
                          ContainerPath(driver.version, name) \o "/state",
                          Some(json))>>
                   /\ responses' = <<resp>>
                   /\ IF RequestRaises(resp) # NoException
                      THEN /\ result' = Raises(RequestRaises(resp))
                           /\ UNCHANGED pc
                      ELSE /\ result' = NoResult
                           /\ pc' = "refetch"
    /\ UNCHANGED <<driver, validated, meta, containers>>
    /\ UNCHANGED <<stripVars, errVars, parseVars>>

\* its last line: return self.get_container(id=container.name)
ActionGetContainer ==
    /\ pc = "refetch"
    /\ \E resp \in DetailResponses :
          /\ requests' = Append(requests,
                 Request("GET", ContainerPath(driver.version, op_args.container),
                         None))
          /\ responses' = Append(responses, resp)
          /\ result' = get_container_result(resp)
    /\ pc' = "ready"
    /\ UNCHANGED <<driver, validated, op, op_args, meta, containers>>
    /\ UNCHANGED <<stripVars, errVars, parseVars>>

\* the timeout the public methods pass
ActionTimeout == 30

StartContainer ==
    \E name \in ContainerNames :
        do_container_action("start_container", name, "start", ActionTimeout,
                            TRUE, TRUE)

StopContainer ==
    \E name \in ContainerNames :
        do_container_action("stop_container", name, "stop", ActionTimeout,
                            TRUE, TRUE)

RestartContainer ==
    \E name \in ContainerNames :
        do_container_action("restart_container", name, "restart", ActionTimeout,
                            TRUE, TRUE)

\* the dispatcher called with arguments of the caller's choice
ActionArgs == {"stop", "start", "restart", "freeze", "unfreeze", "pause", ""}
TimeoutArgs == {ActionTimeout, 60}

DoContainerAction ==
    \E name \in ContainerNames, action \in ActionArgs, timeout \in TimeoutArgs,
       force \in BOOLEAN, stateful \in BOOLEAN :
        do_container_action("_do_container_action", name, action, timeout,
                            force, stateful)

\* destroy_container(container)
DestroyContainer ==
    /\ pc = "ready"
    /\ \E name \in ContainerNames, resp \in OtherResponses :
          /\ op' = "destroy_container"
          /\ op_args' = [container |-> name]
          /\ requests' = <<Request("DELETE", ContainerPath(driver.version, name),
                                   None)>>
          /\ responses' = <<resp>>
          /\ result' = IF RequestRaises(resp) # NoException
                       THEN Raises(RequestRaises(resp))
                       ELSE Returns("response", resp)
    /\ UNCHANGED <<pc, driver, validated, meta, containers>>
    /\ UNCHANGED <<stripVars, errVars, parseVars>>

\* deploy_container(name, image, ...)
DeployContainer ==
    /\ pc = "ready"
    /\ \E name \in ContainerNames, resp \in OtherResponses :
          /\ op' = "deploy_container"
          /\ op_args' = [name |-> name]
          /\ requests' = <<Request("POST", "/" \o driver.version \o "/containers",
                                   Some([name |-> name,
                                         source |-> [type |-> "none"]]))>>
          /\ responses' = <<resp>>
          /\ result' = IF RequestRaises(resp) # NoException
                       THEN Raises(RequestRaises(resp))
                       ELSE Returns("response", resp)
    /\ UNCHANGED <<pc, driver, validated, meta, containers>>
    /\ UNCHANGED <<stripVars, errVars, parseVars>>

\* list_containers(), up to the loop: the listing request and its checks
ListContainers ==
    /\ pc = "ready"
    /\ \E resp \in ListResponses :
          /\ requests' = <<Request("GET", "/" \o driver.version \o "/containers",
                                   None)>>
          /\ responses' = <<resp>>
          /\ IF RequestRaises(resp) # NoException
             THEN /\ result' = Raises(RequestRaises(resp))
                  /\ UNCHANGED <<pc, meta, containers>>
             ELSE IF ~Has(resp.payload, "status")
             THEN /\ result' = Raises(Raise("KeyError", "status"))
                  /\ UNCHANGED <<pc, meta, containers>>
             ELSE IF ~InList(resp.payload.status, LXD_API_SUCCESS_STATUS)
             THEN /\ result' = Raises([type |-> "LXDApiException",
                                       msg |-> LXDApiException_str(resp.payload),
                                       payload |-> <<resp.payload>>])
                  /\ UNCHANGED <<pc, meta, containers>>
             ELSE /\ meta' = resp.payload.metadata
                  /\ containers' = <<>>
                  /\ result' = NoResult
                  /\ pc' = "listing"
    /\ op' = "list_containers"
    /\ op_args' = <<>>
    /\ UNCHANGED <<driver, validated>>
    /\ UNCHANGED <<stripVars, errVars, parseVars>>

\* the item the loop takes next: meta is iterated front to back, and one
\* container has been appended for every item taken so far
NextItem_FromBack(m, done) == m[Len(m) - Len(done)]

NextItem(m, done) == m[Len(done) + 1]

\* one turn of the loop: container_id, get_container, append
ListGetContainer ==
    /\ pc = "listing"
    /\ Len(containers) < Len(meta)
    /\ \E resp \in DetailResponses :
          LET item == NextItem(meta, containers)
              container_id == Last(Split(item, "/"))
              out == get_container_result(resp)
          IN  /\ requests' = Append(requests,
                     Request("GET", ContainerPath(driver.version, container_id),
                             None))
              /\ responses' = Append(responses, resp)
              /\ IF out.kind = "raise"
                 THEN /\ result' = out
                      /\ pc' = "ready"
                      /\ meta' = <<>>
                      /\ containers' = <<>>
                 ELSE /\ containers' = Append(containers, out.value)
                      /\ UNCHANGED <<result, pc, meta>>
    /\ UNCHANGED <<driver, validated, op, op_args>>
    /\ UNCHANGED <<stripVars, errVars, parseVars>>

\* the loop is over: return containers
ListReturn ==
    /\ pc = "listing"
    /\ Len(containers) = Len(meta)
    /\ result' = Returns("containers", containers)
    /\ pc' = "ready"
    /\ meta' = <<>>
    /\ containers' = <<>>
    /\ UNCHANGED <<driver, validated, op, op_args, requests, responses>>
    /\ UNCHANGED <<stripVars, errVars, parseVars>>

\* a driver that __init__ has returned, for one of these calls (secure is
\* left at its default, False)
InitArgs ==
    {[key_file |-> f[1], cert_file |-> f[2], host |-> h, secure |-> FALSE,
      ca_cert |-> ca] :
        f \in {<<None, None>>, <<Some("client.key"), Some("~/client.crt")>>},
        h \in {"localhost", "https://lxd"},
        ca \in CaCerts}

Constructed(args, base_has_files) ==
    LXDContainerDriver_init(args.key_file, args.cert_file, args.host,
                            args.secure, args.ca_cert, base_has_files)

Init ==
    /\ pc = "ready"
    /\ \E args \in InitArgs, base_has_files \in BOOLEAN :
          LET out == Constructed(args, base_has_files)
          IN  /\ out.exc = NoException
              /\ driver = out.driver
              /\ validated = out.validated
              /\ op_args = args
    /\ op = "__init__"
    /\ requests = <<>>
    /\ responses = <<>>
    /\ meta = <<>>
    /\ containers = <<>>
    /\ result = Returns("driver", <<>>)
    /\ IdleStrip /\ IdleErr /\ IdleParse

Next ==
    \/ GetContainer
    \/ StartContainer
    \/ StopContainer
    \/ RestartContainer
    \/ DoContainerAction
    \/ ActionGetContainer
    \/ DestroyContainer
    \/ DeployContainer
    \/ ListContainers
    \/ ListGetContainer
    \/ ListReturn

Spec == Init /\ [][Next]_vars

\* C3: a call of _do_container_action with an action outside stop, start,
\* restart, freeze, unfreeze raises ValueError and sends nothing: no PUT and
\* no follow-up GET.
C3_InvalidActionSendsNothing ==
    (op = "_do_container_action"
        /\ op_args.action \notin {"stop", "start", "restart", "freeze", "unfreeze"}) =>
        /\ result.kind = "raise"
        /\ result.exc.type = "ValueError"
        /\ requests = <<>>
        /\ responses = <<>>
        /\ pc = "ready"

C3_Witness ==
    /\ op = "_do_container_action"
    /\ op_args.action = "pause"
    /\ result.exc.type = "ValueError"

StatePath(name) == "/1.0/containers/" \o name \o "/state"

\* C4: every PUT to /{version}/containers/{name}/state that start_container
\* or restart_container sends carries force=false, and every one that
\* stop_container sends carries force=true, timeout=30 and stateful=true.
C4_PublicCallsFixForce ==
    op \in {"start_container", "restart_container", "stop_container"} =>
        /\ Len(requests) >= 1
        /\ \A i \in 1..Len(requests) :
              requests[i].method = "PUT" =>
                  LET json == requests[i].json[1]
                  IN  /\ requests[i].path = StatePath(op_args.container)
                      /\ op = "start_container" =>
                             (json.action = "start" /\ json.force = FALSE)
                      /\ op = "restart_container" =>
                             (json.action = "restart" /\ json.force = FALSE)
                      /\ op = "stop_container" =>
                             /\ json.action = "stop"
                             /\ json.force = TRUE
                             /\ json.timeout = 30
                             /\ json.stateful = TRUE
        /\ requests[1].method = "PUT"

\* start_container passed force=True on, its PUT went out with force false,
\* and the container was fetched again
C4_Witness ==
    /\ op = "start_container"
    /\ op_args.force = TRUE
    /\ Len(requests) = 2
    /\ requests[1].method = "PUT"
    /\ requests[1].json[1].force = FALSE
    /\ result.kind = "container"

\* the part of a path after its last '/'
TrailingSegment(path) ==
    LET slashes == {i \in 1..Len(path) : CharAt(path, i) = "/"}
        last == IF slashes = {} THEN 0
                ELSE CHOOSE i \in slashes : \A j \in slashes : j <= i
    IN  SubSeq(path, last + 1, Len(path))

\* list_containers got a listing whose status is Success
ListingSucceeded ==
    /\ op = "list_containers"
    /\ Len(responses) >= 1
    /\ success(responses[1].status)
    /\ "status" \in DOMAIN responses[1].payload
    /\ responses[1].payload.status = "Success"

\* C5: for a successful listing of paths p1..pN, list_containers sends one
\* listing request and then one detail request per path, for the trailing
\* segment of p1 first and of pN last, and returns the N containers in that
\* order. (At every moment the requests sent are the first so many of that
\* sequence; when the call returns, they are all of it.)
C5_ListOrder ==
    ListingSucceeded =>
        LET paths == responses[1].payload.metadata
        IN  /\ requests[1] = Request("GET", "/1.0/containers", None)
            /\ Len(requests) <= 1 + Len(paths)
            /\ \A k \in 2..Len(requests) :
                   requests[k] = Request("GET",
                                         "/1.0/containers/"
                                             \o TrailingSegment(paths[k - 1]),
                                         None)
            /\ result.kind = "containers" =>
                   /\ Len(requests) = 1 + Len(paths)
                   /\ Len(result.value) = Len(paths)
                   /\ \A k \in 1..Len(paths) :
                          /\ result.value[k].name
                                 = responses[k + 1].payload.metadata.name
                          /\ (result.value[k].state = "RUNNING")
                                 = (responses[k + 1].payload.metadata.status
                                        = "Running")

\* a listing of two different paths was answered and two containers came back
C5_Witness ==
    /\ ListingSucceeded
    /\ result.kind = "containers"
    /\ Len(requests) = 3
    /\ requests[2].path = "/1.0/containers/a"
    /\ requests[3].path = "/1.0/containers/b"
    /\ Len(result.value) = 2

\* get_container has a parsed response that has a status
GetContainerParsed ==
    /\ op = "get_container"
    /\ Len(responses) = 1
    /\ RequestRaises(responses[1]) = NoException
    /\ "status" \in DOMAIN responses[1].payload

\* C8: get_container on a parsed response whose status is not 'Success'
\* raises LXDApiException carrying the whole payload; on 'Success' it returns
\* a Container whose name and id are metadata.name and whose state is RUNNING
\* if and only if metadata.status is 'Running', and STOPPED otherwise.
C8_GetContainerMapping ==
    GetContainerParsed =>
        LET r == responses[1].payload
        IN  IF r.status # "Success"
            THEN /\ result.kind = "raise"
                 /\ result.exc.type = "LXDApiException"
                 /\ result.exc.payload = <<r>>
            ELSE /\ result.kind = "container"
                 /\ result.value.name = r.metadata.name
                 /\ result.value.id = r.metadata.name
                 /\ result.value.state =
                        IF r.metadata.status = "Running" THEN "RUNNING"
                        ELSE "STOPPED"

\* a container reported as Frozen came back STOPPED
C8_Witness ==
    /\ GetContainerParsed
    /\ responses[1].payload.status = "Success"
    /\ responses[1].payload.metadata.status = "Frozen"
    /\ result.kind = "container"
    /\ result.value.state = "STOPPED"

\* the dispatcher was called directly and its PUT went out
DispatcherSent ==
    /\ op = "_do_container_action"
    /\ Len(requests) >= 1
    /\ requests[1].method = "PUT"
    /\ requests[1].path = StatePath(op_args.container)

\* C11 as stated: for every direct call of _do_container_action with a valid
\* action and any force, the force field of the body sent is true when the
\* action is stop, freeze or unfreeze, and false when it is start or restart.
C11_ForceFixedByAction ==
    DispatcherSent =>
        LET json == requests[1].json[1]
        IN  /\ json.action = op_args.action
            /\ json.action \in {"stop", "freeze", "unfreeze"} =>
                   json.force = TRUE
            /\ json.action \in {"start", "restart"} => json.force = FALSE

\* C11 (amended): for every direct call of _do_container_action with a valid
\* action, the force field of the body sent is false when the action is start
\* or restart, and is the caller's force value, unchanged, when the action is
\* stop, freeze or unfreeze; action, timeout and stateful go out as passed,
\* and no other request than that PUT precedes it.
C11_ForceOverriddenOnlyForStart ==
    DispatcherSent =>
        LET json == requests[1].json[1]
        IN  /\ ValidAction(op_args.action)
            /\ json.action = op_args.action
            /\ json.timeout = op_args.timeout
            /\ json.stateful = op_args.stateful
            /\ json.action \in {"start", "restart"} => json.force = FALSE
            /\ json.action \in {"stop", "freeze", "unfreeze"} =>
                   json.force = op_args.force

\* the dispatcher was asked to stop a container with force=False, and the
\* PUT carried force false
C11_Witness ==
    /\ DispatcherSent
    /\ op_args.action = "stop"
    /\ op_args.force = FALSE
    /\ requests[1].json[1].force = FALSE

====
